---- MODULE Spec2Model ----
(***************************************************************************)
(* Model of src/index.mjs (the revision of lines 194-415): the moderated   *)
(* media relay.  Handlers are asynchronous functions; each one is a        *)
(* process whose pc names the await it is suspended on.  One action is the *)
(* completion of that await followed by the synchronous code up to the     *)
(* next await.  A store operation or gateway call takes effect when the    *)
(* await on it completes.                                                  *)
(***************************************************************************)
EXTENDS Integers, Sequences, FiniteSets, TLC

(***************************************************************************)
(* Bounds of the model.                                                    *)
(***************************************************************************)
\* the handler invocations (ticks, commands, messages, callbacks) of a behaviour
MaxHandlers == 2
\* the documents in the store at startup
MaxBacklog == 1
\* the documents in the store at startup where handlers run one at a time
MaxSeqBacklog == 3
\* the documents in the store at startup where the post chance is examined
MaxChanceBacklog == 200

(***************************************************************************)
(* Configuration (lines 214-227) and the administrators read at startup    *)
(* (lines 238-241).                                                        *)
(***************************************************************************)
CHAT_ID == 100
DEBUG == FALSE
MIN_HOUR == 5
MAX_HOUR == 19
MIN_POST_COUNT == 4
MAX_POST_COUNT == 5
\* BASE_POST_CHANCE = 0.25 as the fraction BASE_POST_CHANCE_NUM / BASE_POST_CHANCE_DEN
BASE_POST_CHANCE_NUM == 25
BASE_POST_CHANCE_DEN == 100
BASE_POST_CHANCE_POST_COUNT == 25
BlacklistedChat == 200
OtherChat == 201
BLACKLISTED_CHAT_IDS == {BlacklistedChat}

ownerId == 1
AdminId == 2
UserId == 3
\* the bot's own user id, the sender of the messages it posts
BotId == 9
administratorsIds == {ownerId, AdminId}
Users == {ownerId, AdminId, UserId}

\* Math.random() yields a value in [0, 1): the draw r stands for r / RandomDen
RandomDen == 2
RandomDraws == 0 .. (RandomDen - 1)
\* now.getHours() + now.getTimezoneOffset() / 60, in whole hours
Hours == {MIN_HOUR - 1, MIN_HOUR, MIN_HOUR + 1, MAX_HOUR - 1, MAX_HOUR, MAX_HOUR + 1}

Absent == "absent"

(***************************************************************************)
(* Values                                                                  *)
(***************************************************************************)
\* A Telegram message; a field the message does not carry is Absent
\* (photo: the empty list, forward_from_chat and from: 0).
NoMessage ==
  [message_id |-> 0, from |-> 0, chat |-> 0, text |-> Absent,
   media_group_id |-> Absent, photo |-> <<>>, video |-> Absent,
   animation |-> Absent, forward_date |-> Absent, forward_from_chat |-> 0,
   caption |-> Absent, parse_mode |-> Absent, caption_entities |-> Absent,
   reply_markup |-> Absent]

NoOptions ==
  [caption |-> Absent, parse_mode |-> Absent, caption_entities |-> Absent,
   reply_markup |-> Absent]

\* serializedMessage = null
NoSerialized == <<>>

\* findOne found nothing (null)
NoDoc == [_id |-> 0, message |-> NoSerialized]

NoCallback == [id |-> 0, from |-> 0, data |-> Absent]

\* JavaScript truthiness of an optional string-valued field
Truthy(v) == v # Absent

(***************************************************************************)
(* Pure functions                                                          *)
(***************************************************************************)
\* pick(message, [...]) keeps the listed keys the message has; {} for a forward
pickMessageProps(message) ==
  IF Truthy(message.forward_date)
    THEN NoOptions
    ELSE [caption |-> message.caption, parse_mode |-> message.parse_mode,
          caption_entities |-> message.caption_entities, reply_markup |-> Absent]

\* Variant: the media group is looked at after the media fields
serializeMessageGroupLast(message) ==
  IF message.photo # <<>>
    THEN [ok |-> TRUE, error |-> Absent,
          value |-> <<"sendPhoto", message.photo[1], pickMessageProps(message)>>]
  ELSE IF Truthy(message.video)
    THEN [ok |-> TRUE, error |-> Absent,
          value |-> <<"sendVideo", message.video, pickMessageProps(message)>>]
  ELSE IF Truthy(message.animation)
    THEN [ok |-> TRUE, error |-> Absent,
          value |-> <<"sendAnimation", message.animation, pickMessageProps(message)>>]
  ELSE IF Truthy(message.media_group_id)
    THEN [ok |-> FALSE, error |-> "Media groups are not supported yet :(",
          value |-> NoSerialized]
  ELSE IF Truthy(message.text)
    THEN [ok |-> FALSE, error |-> "No text only content :(", value |-> NoSerialized]
  ELSE [ok |-> FALSE, error |-> "No allowed content found :(", value |-> NoSerialized]

\* The result of serializeMessage: ok = FALSE is a thrown SerializationError
\* carrying the message `error`.
serializeMessage(message) ==
  IF Truthy(message.media_group_id)
    THEN [ok |-> FALSE, error |-> "Media groups are not supported yet :(",
          value |-> NoSerialized]
  ELSE IF message.photo # <<>>
    THEN [ok |-> TRUE, error |-> Absent,
          value |-> <<"sendPhoto", message.photo[1], pickMessageProps(message)>>]
  ELSE IF Truthy(message.video)
    THEN [ok |-> TRUE, error |-> Absent,
          value |-> <<"sendVideo", message.video, pickMessageProps(message)>>]
  ELSE IF Truthy(message.animation)
    THEN [ok |-> TRUE, error |-> Absent,
          value |-> <<"sendAnimation", message.animation, pickMessageProps(message)>>]
  ELSE IF Truthy(message.text)
    THEN [ok |-> FALSE, error |-> "No text only content :(", value |-> NoSerialized]
  ELSE [ok |-> FALSE, error |-> "No allowed content found :(", value |-> NoSerialized]

addAdminReplyMarkup(serializedMessage) ==
  IF Len(serializedMessage) = 3
    THEN <<serializedMessage[1], serializedMessage[2],
           [serializedMessage[3] EXCEPT !.reply_markup = "accept/reject"]>>
    ELSE serializedMessage

\* Variant: any message that names a sender passes
checkAdminRightsAnySender(message) == message.from # 0

checkAdminRights(message) == message.from \in administratorsIds

\* Variant: the chat the message was sent in is looked up, not its forward origin
checkIfBlacklistedByChat(message) == message.chat \in BLACKLISTED_CHAT_IDS

checkIfBlacklisted(message) ==
  message.forward_from_chat # 0 /\ message.forward_from_chat \in BLACKLISTED_CHAT_IDS

\* Variant: the chance is not capped at 1
postChanceUncapped(count) == BASE_POST_CHANCE_NUM * count

\* Math.min(BASE_POST_CHANCE * (count / BASE_POST_CHANCE_POST_COUNT), 1) as the
\* numerator of a fraction over PostChanceDen
PostChanceDen == BASE_POST_CHANCE_DEN * BASE_POST_CHANCE_POST_COUNT
postChance(count) ==
  IF BASE_POST_CHANCE_NUM * count < PostChanceDen
    THEN BASE_POST_CHANCE_NUM * count
    ELSE PostChanceDen

\* Variant: a draw equal to the post chance triggers a publish
ShouldPostDrawNotStrict(hour, r, count) ==
  /\ hour > MIN_HOUR
  /\ hour < MAX_HOUR
  /\ r * PostChanceDen <= postChance(count) * RandomDen

\* Variant: the hour MIN_HOUR itself is inside the window
ShouldPostFromMinHour(hour, r, count) ==
  /\ hour >= MIN_HOUR
  /\ hour < MAX_HOUR
  /\ r * PostChanceDen < postChance(count) * RandomDen

\* hour > MIN_HOUR && hour < MAX_HOUR && Math.random() < postChance
ShouldPost(hour, r, count) ==
  /\ hour > MIN_HOUR
  /\ hour < MAX_HOUR
  /\ r * PostChanceDen < postChance(count) * RandomDen

\* Math.round(MIN_POST_COUNT + Math.random() * (MAX_POST_COUNT - MIN_POST_COUNT))
BatchSize(r) ==
  (2 * RandomDen * MIN_POST_COUNT + 2 * r * (MAX_POST_COUNT - MIN_POST_COUNT) + RandomDen)
    \div (2 * RandomDen)

(***************************************************************************)
(* State                                                                   *)
(***************************************************************************)
VARIABLES
  db,            \* the documents {_id, type: 'message', message} of store.db
  nextId,        \* the next _id the store assigns
  postTimer,     \* the handle kept in postTimer (0: null)
  timers,        \* the handles of the timeouts that are set and have not fired
  nextTimer,     \* the next handle setTimeout returns
  chatMessages,  \* the messages present in the chats the bot talks in
  nextMessageId, \* the next message_id the gateway assigns
  procs          \* the handler invocations, in the order they started

vars == <<db, nextId, postTimer, timers, nextTimer, chatMessages, nextMessageId, procs>>

timerVars == <<postTimer, timers, nextTimer>>
chatVars == <<chatMessages, nextMessageId>>
storeVars == <<db, nextId>>

\* One completed store operation or gateway call of a handler
Effect(op, chat, text, id) == [op |-> op, chat |-> chat, text |-> text, id |-> id]

\* What a tick read before it decided: nothing yet
NoSeen == [hour |-> 0 - 1, draw |-> 0 - 1, count |-> 0 - 1, chance |-> 0 - 1, n |-> 0]

NewProc(kind, pc, msg, cq) ==
  [kind |-> kind, pc |-> pc, msg |-> msg, cq |-> cq, ser |-> NoSerialized,
   reply |-> Absent, n |-> 0, i |-> 0, cnt |-> 0, doc |-> NoDoc, trace |-> <<>>,
   seen |-> NoSeen]

ProcIds == 1 .. Len(procs)
Started(kind) == Cardinality({p \in ProcIds : procs[p].kind = kind})
Ended(pc) == pc \in {"done", "failed"}

\* db.count({type: 'message'})
Count == Cardinality(db)

\* findOne(...).skip(k): the document after k others in the store's stable
\* enumeration order (by _id); null when there are no more than k
FindOneSkip(k) ==
  IF k < Cardinality(db)
    THEN CHOOSE d \in db : Cardinality({e \in db : e._id < d._id}) = k
    ELSE NoDoc

\* db.insert({type: 'message', message})
Insert(serializedMessage) == db \cup {[_id |-> nextId, message |-> serializedMessage]}

\* db.remove({_id})
Remove(id) == {d \in db : d._id # id}

StoredPhoto == <<"sendPhoto", "photo", NoOptions>>

\* The store as db.load() finds it: b documents of earlier runs
StoreAtStartup(b) ==
  /\ db = {[_id |-> i, message |-> StoredPhoto] : i \in 1 .. b}
  /\ nextId = b + 1

\* The rest of the state once the module's top level has run
Startup ==
  \* schedulePostTimer() at startup (line 275)
  /\ postTimer = 1
  /\ timers = {1}
  /\ nextTimer = 2
  /\ chatMessages = {}
  /\ nextMessageId = 1
  /\ procs = <<>>

Init == (\E b \in 0 .. MaxBacklog : StoreAtStartup(b)) /\ Startup

\* Startup on a store that holds MaxBacklog documents
InitBacklog == StoreAtStartup(MaxBacklog) /\ Startup

\* Startup on a store that holds up to MaxSeqBacklog documents
InitSeq == (\E b \in 0 .. MaxSeqBacklog : StoreAtStartup(b)) /\ Startup

\* Startup on a store that holds up to MaxChanceBacklog documents
InitChance == (\E b \in 0 .. MaxChanceBacklog : StoreAtStartup(b)) /\ Startup

(***************************************************************************)
(* Adaptive scheduler                                                      *)
(***************************************************************************)
\* Variant: the stored handle is not cancelled before the new timeout is set
schedulePostTimerNoClear(pt, tm, nt) ==
  [postTimer |-> nt, timers |-> tm \cup {nt}, nextTimer |-> nt + 1]

\* if (postTimer) clearTimeout(postTimer); postTimer = setTimeout(...)
schedulePostTimer(pt, tm, nt) ==
  [postTimer |-> nt,
   timers |-> (IF pt # 0 THEN tm \ {pt} ELSE tm) \cup {nt},
   nextTimer |-> nt + 1]

Reschedule ==
  LET s == schedulePostTimer(postTimer, timers, nextTimer) IN
    /\ postTimer' = s.postTimer
    /\ timers' = s.timers
    /\ nextTimer' = s.nextTimer

\* Variant: schedulePostTimer() as the last statement of the try block
ReschedulesAtEndNoFinally(kind, outcome) == kind = "tick" /\ outcome = "done"

\* try { ... } finally { schedulePostTimer() } in handlePostTimer: whether the
\* handler of this kind reschedules when it ends with this outcome
ReschedulesAtEnd(kind, outcome) == kind = "tick"

\* The handler p ends (it returned: "done", or it threw: "failed") as `pr`;
\* its local variables are gone
Finish(p, pr, outcome) ==
  /\ procs' = [procs EXCEPT ![p] =
       [pr EXCEPT !.pc = outcome, !.n = 0, !.i = 0, !.cnt = 0, !.doc = NoDoc]]
  /\ IF ReschedulesAtEnd(pr.kind, outcome) THEN Reschedule ELSE UNCHANGED timerVars

\* Variant: the loop test is i <= count
IterateOneMore(p, pr) ==
  IF pr.i <= pr.n
    THEN /\ procs' = [procs EXCEPT ![p] = [pr EXCEPT !.pc = "count"]]
         /\ UNCHANGED timerVars
    ELSE Finish(p, pr, "done")

\* postRandomMessages(count): the loop test before iteration pr.i
Iterate(p, pr) ==
  IF pr.i < pr.n
    THEN \* postRandomMessage() runs up to await db.count()
         /\ procs' = [procs EXCEPT ![p] = [pr EXCEPT !.pc = "count"]]
         /\ UNCHANGED timerVars
    ELSE Finish(p, pr, "done")

\* The timeout fires: handlePostTimer runs up to await db.count()
TickFire ==
  /\ Len(procs) < MaxHandlers
  /\ \E t \in timers :
       /\ timers' = timers \ {t}
       /\ procs' = Append(procs, NewProc("tick", "tcount", NoMessage, NoCallback))
  /\ UNCHANGED <<postTimer, nextTimer, storeVars, chatVars>>

\* handlePostTimer from the value of db.count() to the next await, the
\* handler going on as `pr`
TickDecide(p, pr, hour, r1, r2) ==
  IF ShouldPost(hour, r1, Count)
    THEN Iterate(p, [pr EXCEPT !.n = BatchSize(r2), !.i = 0])
    ELSE Finish(p, pr, "done")

\* handlePostTimer after await db.count()
TickCount(p) ==
  /\ procs[p].kind = "tick"
  /\ procs[p].pc = "tcount"
  /\ \E hour \in Hours, r1 \in RandomDraws, r2 \in RandomDraws :
       TickDecide(p, procs[p], hour, r1, r2)
  /\ UNCHANGED <<storeVars, chatVars>>

\* handlePostTimer after await db.count(), with the count, the post chance,
\* the hour and the draw it computed, and the batch size it asked for (0: it
\* asked for none), kept on record
TickCountLogged(p) ==
  /\ procs[p].kind = "tick"
  /\ procs[p].pc = "tcount"
  /\ \E hour \in Hours, r1 \in RandomDraws, r2 \in RandomDraws :
       TickDecide(p, [procs[p] EXCEPT !.seen =
                        [hour |-> hour, draw |-> r1, count |-> Count,
                         chance |-> postChance(Count),
                         n |-> IF ShouldPost(hour, r1, Count) THEN BatchSize(r2) ELSE 0]],
                  hour, r1, r2)
  /\ UNCHANGED <<storeVars, chatVars>>

\* postRandomMessage after await db.count()
PostCount(p) ==
  /\ procs[p].pc = "count"
  /\ IF Count > 0
       THEN /\ procs' = [procs EXCEPT ![p].pc = "find", ![p].cnt = Count]
            /\ UNCHANGED timerVars
       ELSE Iterate(p, [procs[p] EXCEPT !.i = @ + 1])
  /\ UNCHANGED <<storeVars, chatVars>>

\* postRandomMessage after await db.findOne(...).skip(floor(random * count)):
\* doc.message throws a TypeError when the skip ran past the documents left
PostFind(p) ==
  /\ procs[p].pc = "find"
  /\ \E k \in 0 .. (procs[p].cnt - 1) :
       LET doc == FindOneSkip(k) IN
         IF doc = NoDoc
           THEN Finish(p, procs[p], "failed")
           ELSE /\ procs' = [procs EXCEPT ![p].pc = "send", ![p].doc = doc]
                /\ UNCHANGED timerVars
  /\ UNCHANGED <<storeVars, chatVars>>

PostTarget == IF DEBUG THEN ownerId ELSE CHAT_ID

\* postRandomMessage after await sendSerializedMessage(target, doc.message)
PostSend(p) ==
  /\ procs[p].pc = "send"
  /\ procs' = [procs EXCEPT
       ![p].pc = "remove",
       ![p].trace = Append(@, Effect(procs[p].doc.message[1], PostTarget,
                                     procs[p].doc.message[2], procs[p].doc._id))]
  /\ UNCHANGED <<timerVars, storeVars, chatVars>>

\* postRandomMessage after await db.remove({_id: doc._id}); the loop goes on
PostRemove(p) ==
  /\ procs[p].pc = "remove"
  /\ db' = Remove(procs[p].doc._id)
  /\ Iterate(p, [procs[p] EXCEPT
       !.i = @ + 1,
       !.trace = Append(@, Effect("remove", 0, Absent, procs[p].doc._id))])
  /\ UNCHANGED <<nextId, chatVars>>

\* Variant: a rejected send drops the document it was sending
PostFailDropsRecord(p) ==
  /\ procs[p].pc \in {"tcount", "count", "find", "send", "remove"}
  /\ Finish(p, procs[p], "failed")
  /\ db' = IF procs[p].pc = "send" THEN Remove(procs[p].doc._id) ELSE db
  /\ UNCHANGED <<nextId, chatVars>>

\* The awaited store operation or gateway send of a publishing handler rejects
PostFail(p) ==
  /\ procs[p].pc \in {"tcount", "count", "find", "send", "remove"}
  /\ Finish(p, procs[p], "failed")
  /\ UNCHANGED <<storeVars, chatVars>>

(***************************************************************************)
(* Commands                                                                *)
(***************************************************************************)
CommandTexts ==
  {"/start", "/queue_info", "/random_post", "/random_post 0", "/random_post 2",
   "/random_post x", "/help"}

\* command.match(/^\/random_post(?:\s+(\d+))?$/): whether it matches, and
\* the count (1 when the digits are missing)
RandomPostMatch(command) ==
  CASE command = "/random_post" -> [matched |-> TRUE, count |-> 1]
    [] command = "/random_post 0" -> [matched |-> TRUE, count |-> 0]
    [] command = "/random_post 2" -> [matched |-> TRUE, count |-> 2]
    [] OTHER -> [matched |-> FALSE, count |-> 0]

CommandMessages ==
  {[NoMessage EXCEPT !.from = u, !.chat = u, !.text = t] :
     u \in {AdminId, UserId}, t \in CommandTexts}

\* Variant: /random_post is served whoever sends it
handleCommandAnySender(message) ==
  LET isAdmin == checkAdminRights(message)
      command == message.text
      match == RandomPostMatch(command)
      new == NewProc("command", "reply", message, NoCallback)
      p == Len(procs) + 1
  IN
    /\ Len(procs) < MaxHandlers
    /\ IF command = "/start"
         THEN /\ procs' = Append(procs, [new EXCEPT !.reply =
                   IF isAdmin THEN "Hi!" ELSE "Hi! Send me some memes :)"])
              /\ UNCHANGED timerVars
       ELSE IF command = "/queue_info" /\ isAdmin
         THEN /\ procs' = Append(procs, [new EXCEPT !.pc = "qcount"])
              /\ UNCHANGED timerVars
       ELSE IF match.matched
         THEN /\ Reschedule
              /\ procs' = Append(procs, [new EXCEPT
                   !.n = IF 0 < match.count THEN match.count ELSE 0,
                   !.pc = IF 0 < match.count THEN "count" ELSE "done"])
       ELSE /\ procs' = Append(procs, [new EXCEPT !.reply = "Unknown command :("])
            /\ UNCHANGED timerVars
    /\ UNCHANGED <<storeVars, chatVars>>

\* A command message arrives: handleCommand runs up to its first await
handleCommand(message) ==
  LET isAdmin == checkAdminRights(message)
      command == message.text
      match == RandomPostMatch(command)
      new == NewProc("command", "reply", message, NoCallback)
      p == Len(procs) + 1
  IN
    /\ Len(procs) < MaxHandlers
    /\ IF command = "/start"
         THEN /\ procs' = Append(procs, [new EXCEPT !.reply =
                   IF isAdmin THEN "Hi!" ELSE "Hi! Send me some memes :)"])
              /\ UNCHANGED timerVars
       ELSE IF command = "/queue_info" /\ isAdmin
         THEN /\ procs' = Append(procs, [new EXCEPT !.pc = "qcount"])
              /\ UNCHANGED timerVars
       ELSE IF match.matched /\ isAdmin
         THEN \* schedulePostTimer(); return postRandomMessages(count)
              /\ Reschedule
              /\ procs' = Append(procs, [new EXCEPT
                   !.n = IF 0 < match.count THEN match.count ELSE 0,
                   !.pc = IF 0 < match.count THEN "count" ELSE "done"])
       ELSE /\ procs' = Append(procs, [new EXCEPT !.reply = "Unknown command :("])
            /\ UNCHANGED timerVars
    /\ UNCHANGED <<storeVars, chatVars>>

Command == \E message \in CommandMessages : handleCommand(message)

\* /queue_info after await db.count()
QueueInfoCount(p) ==
  /\ procs[p].pc = "qcount"
  /\ procs' = [procs EXCEPT ![p].pc = "reply", ![p].cnt = Count,
                            ![p].reply = "Message queue size: "]
  /\ UNCHANGED <<timerVars, storeVars, chatVars>>

\* The bot.sendMessage a handler returned completes
Reply(p) ==
  /\ procs[p].pc = "reply"
  /\ procs' = [procs EXCEPT
       ![p].pc = "done",
       ![p].trace = Append(@, Effect("sendMessage", procs[p].msg.chat,
                                     procs[p].reply, procs[p].cnt))]
  /\ UNCHANGED <<timerVars, storeVars, chatVars>>

\* The awaited db.count() of /queue_info, or the bot.sendMessage a command
\* handler returned, rejects: nothing catches it, the handler ends there
CommandFail(p) ==
  /\ procs[p].kind = "command"
  /\ procs[p].pc \in {"qcount", "reply"}
  /\ Finish(p, procs[p], "failed")
  /\ UNCHANGED <<storeVars, chatVars>>

(***************************************************************************)
(* Moderation workflow                                                     *)
(***************************************************************************)
PhotoSizes == <<"photo_small", "photo_large">>

\* The content of an inbound message that is no command
Contents ==
  {[NoMessage EXCEPT !.photo = PhotoSizes, !.caption = "caption"],
   [NoMessage EXCEPT !.video = "video", !.caption = "caption"],
   [NoMessage EXCEPT !.animation = "animation", !.caption = "caption"],
   [NoMessage EXCEPT !.photo = PhotoSizes, !.caption = "caption",
                     !.media_group_id = "group"],
   [NoMessage EXCEPT !.text = "hello"],
   NoMessage}

\* forward_date and forward_from_chat.id of an inbound message
Forwards == {<<Absent, 0>>, <<"date", BlacklistedChat>>, <<"date", OtherChat>>}

\* The inbound messages that are no command: every content from every
\* sender, not forwarded or forwarded from a chat on the blacklist; forwarded
\* from a chat that is not on it where the code reads forward_from_chat (the
\* sender is no administrator and serializeMessage accepts the content)
MediaMessages ==
  {[x[1] EXCEPT !.from = x[2], !.chat = x[2],
                !.forward_date = x[3][1], !.forward_from_chat = x[3][2]] :
     x \in {y \in Contents \X {AdminId, UserId} \X Forwards :
              y[3][2] = OtherChat =>
                (serializeMessage(y[1]).ok /\ y[2] \notin administratorsIds)}}

\* The message the gateway posts for bot[method](chatId, fileId, options)
SentMessage(chatId, serializedMessage, messageId) ==
  LET method == serializedMessage[1]
      fileId == serializedMessage[2]
      options == serializedMessage[3]
  IN [NoMessage EXCEPT
        !.message_id = messageId, !.from = BotId, !.chat = chatId,
        !.photo = IF method = "sendPhoto" THEN <<fileId>> ELSE <<>>,
        !.video = IF method = "sendVideo" THEN fileId ELSE Absent,
        !.animation = IF method = "sendAnimation" THEN fileId ELSE Absent,
        !.caption = options.caption,
        !.caption_entities = options.caption_entities,
        !.reply_markup = options.reply_markup]

\* bot.deleteMessage(chatId, messageId)
DeleteMessage(chatId, messageId) ==
  {m \in chatMessages : ~(m.chat = chatId /\ m.message_id = messageId)}

\* Variant: the blacklist is consulted before the message is encoded
handleMediaStartBlacklistFirst(message) ==
  LET isAdmin == checkAdminRights(message)
      s == serializeMessage(message)
      new == NewProc("media", "reply", message, NoCallback)
  IN
    IF ~isAdmin /\ checkIfBlacklisted(message)
      THEN [new EXCEPT !.reply = "This content is not welcome here :("]
    ELSE IF ~s.ok THEN [new EXCEPT !.reply = s.error]
    ELSE IF isAdmin THEN [new EXCEPT !.pc = "store", !.ser = s.value]
    ELSE [new EXCEPT !.pc = "prompt", !.ser = s.value]

\* Variant: the blacklist is consulted for every sender, administrators too
handleMediaStartBlacklistAll(message) ==
  LET isAdmin == checkAdminRights(message)
      s == serializeMessage(message)
      new == NewProc("media", "reply", message, NoCallback)
  IN
    IF ~s.ok THEN [new EXCEPT !.reply = s.error]
    ELSE IF checkIfBlacklisted(message)
      THEN [new EXCEPT !.reply = "This content is not welcome here :("]
    ELSE IF isAdmin THEN [new EXCEPT !.pc = "store", !.ser = s.value]
    ELSE [new EXCEPT !.pc = "prompt", !.ser = s.value]

\* Variant: an administrator's message that does not encode is deleted
\* without a reply
handleMediaStartRejectedDeleted(message) ==
  LET isAdmin == checkAdminRights(message)
      s == serializeMessage(message)
      new == NewProc("media", "reply", message, NoCallback)
  IN
    IF ~s.ok
      THEN IF isAdmin THEN [new EXCEPT !.pc = "delete"] ELSE [new EXCEPT !.reply = s.error]
    ELSE IF isAdmin THEN [new EXCEPT !.pc = "store", !.ser = s.value]
    ELSE IF checkIfBlacklisted(message)
      THEN [new EXCEPT !.reply = "This content is not welcome here :("]
    ELSE [new EXCEPT !.pc = "prompt", !.ser = s.value]

\* handleMedia up to its first await: the await it stops at (pc), with the
\* reply or the serialized message that await carries
handleMediaStart(message) ==
  LET isAdmin == checkAdminRights(message)
      s == serializeMessage(message)
      new == NewProc("media", "reply", message, NoCallback)
  IN
    IF ~s.ok THEN [new EXCEPT !.reply = s.error]
    ELSE IF isAdmin THEN [new EXCEPT !.pc = "store", !.ser = s.value]
    ELSE IF checkIfBlacklisted(message)
      THEN [new EXCEPT !.reply = "This content is not welcome here :("]
    ELSE [new EXCEPT !.pc = "prompt", !.ser = s.value]

\* A message that is no command arrives: handleMedia runs up to its first await
handleMedia(message) ==
  /\ Len(procs) < MaxHandlers
  /\ chatMessages' = chatMessages \cup {message}
  /\ nextMessageId' = nextMessageId + 1
  /\ procs' = Append(procs, handleMediaStart(message))
  /\ UNCHANGED <<timerVars, storeVars>>

Media ==
  \E m \in MediaMessages : handleMedia([m EXCEPT !.message_id = nextMessageId])

\* The inbound messages of every combination of the fields serializeMessage
\* looks at, not forwarded
CodecMessages ==
  {[NoMessage EXCEPT !.from = u, !.chat = u, !.media_group_id = g, !.photo = ph,
                     !.video = v, !.animation = a, !.text = t] :
     u \in {AdminId, UserId}, g \in {Absent, "group"}, ph \in {<<>>, PhotoSizes},
     v \in {Absent, "video"}, a \in {Absent, "animation"}, t \in {Absent, "hello"}}

MediaOfAnyShape ==
  \E m \in CodecMessages : handleMedia([m EXCEPT !.message_id = nextMessageId])

\* handleMedia after await storeSerializedMessage(serializedMessage)
MediaStore(p) ==
  /\ procs[p].kind = "media"
  /\ procs[p].pc = "store"
  /\ db' = Insert(procs[p].ser)
  /\ nextId' = nextId + 1
  /\ procs' = [procs EXCEPT
       ![p].pc = "delete",
       ![p].trace = Append(@, Effect("insert", 0, Absent, nextId))]
  /\ UNCHANGED <<timerVars, chatVars>>

\* handleMedia after await bot.deleteMessage(message.chat.id, message.message_id)
MediaDelete(p) ==
  /\ procs[p].kind = "media"
  /\ procs[p].pc = "delete"
  /\ chatMessages' = DeleteMessage(procs[p].msg.chat, procs[p].msg.message_id)
  /\ procs' = [procs EXCEPT
       ![p].pc = "done",
       ![p].trace = Append(@, Effect("deleteMessage", procs[p].msg.chat, Absent,
                                     procs[p].msg.message_id))]
  /\ UNCHANGED <<timerVars, storeVars, nextMessageId>>

\* handleMedia after await sendSerializedMessage(ownerId, addAdminReplyMarkup(...))
MediaPrompt(p) ==
  /\ procs[p].pc = "prompt"
  /\ LET prompt == addAdminReplyMarkup(procs[p].ser) IN
       /\ chatMessages' = chatMessages \cup {SentMessage(ownerId, prompt, nextMessageId)}
       /\ procs' = [procs EXCEPT
            ![p].pc = "thanks",
            ![p].trace = Append(@, Effect(prompt[1], ownerId, prompt[2], nextMessageId))]
  /\ nextMessageId' = nextMessageId + 1
  /\ UNCHANGED <<timerVars, storeVars>>

\* handleMedia after await bot.sendMessage(..., 'Thanks for your contribution!')
MediaThanks(p) ==
  /\ procs[p].pc = "thanks"
  /\ procs' = [procs EXCEPT
       ![p].pc = "done",
       ![p].trace = Append(@, Effect("sendMessage", procs[p].msg.chat,
                                     "Thanks for your contribution!", 0))]
  /\ UNCHANGED <<timerVars, storeVars, chatVars>>

\* The review prompts present in the owner's chat
Prompts == {m \in chatMessages : m.from = BotId /\ m.reply_markup # Absent}

\* callbackQuery.message as the gateway delivers it: the prompt, or (for a
\* message it no longer serves) its chat and message_id alone
CallbackMessages(m) ==
  {m, [NoMessage EXCEPT !.chat = m.chat, !.message_id = m.message_id]}

\* Variant: the catch block does not return on a SerializationError
handleCallbackQueryNoReturn(callbackQuery, message) ==
  LET isAdmin == checkAdminRights(callbackQuery)
      s == serializeMessage(message)
      new == NewProc("callback", "delete", message, callbackQuery)
  IN
    /\ Len(procs) < MaxHandlers
    /\ procs' = Append(procs,
         IF isAdmin
           THEN IF callbackQuery.data = "accept"
                  THEN [new EXCEPT !.pc = "store", !.ser = s.value]
                  ELSE new
           ELSE [new EXCEPT !.pc = "done", !.trace =
                   <<Effect("answerCallbackQuery", 0, Absent, callbackQuery.id)>>])
    /\ UNCHANGED <<timerVars, storeVars, chatVars>>

\* A callback query arrives: handleCallbackQuery runs up to its first await.
\* answerCallbackQuery is called without await: it is an effect of the step
\* that reaches it.
handleCallbackQuery(callbackQuery, message) ==
  LET isAdmin == checkAdminRights(callbackQuery)
      s == serializeMessage(message)
      new == NewProc("callback", "delete", message, callbackQuery)
  IN
    /\ Len(procs) < MaxHandlers
    /\ procs' = Append(procs,
         IF isAdmin
           THEN IF callbackQuery.data = "accept"
                  THEN IF ~s.ok
                         THEN [new EXCEPT !.pc = "reply", !.reply = s.error]
                         ELSE [new EXCEPT !.pc = "store", !.ser = s.value]
                  ELSE new
           ELSE [new EXCEPT !.pc = "done", !.trace =
                   <<Effect("answerCallbackQuery", 0, Absent, callbackQuery.id)>>])
    /\ UNCHANGED <<timerVars, storeVars, chatVars>>

\* One callback query per prompt
Callback ==
  \E m \in Prompts, u \in Users, data \in {"accept", "reject"} :
    /\ \A p \in ProcIds :
         procs[p].kind = "callback" => procs[p].msg.message_id # m.message_id
    /\ \E message \in CallbackMessages(m) :
         handleCallbackQuery(
           [id |-> Started("callback") + 1, from |-> u, data |-> data], message)

\* handleCallbackQuery after await storeSerializedMessage(serializedMessage)
CallbackStore(p) ==
  /\ procs[p].kind = "callback"
  /\ procs[p].pc = "store"
  /\ db' = Insert(procs[p].ser)
  /\ nextId' = nextId + 1
  /\ procs' = [procs EXCEPT
       ![p].pc = "delete",
       ![p].trace = Append(@, Effect("insert", 0, Absent, nextId))]
  /\ UNCHANGED <<timerVars, chatVars>>

\* handleCallbackQuery after await bot.deleteMessage(...), then
\* bot.answerCallbackQuery(callbackQuery.id)
CallbackDelete(p) ==
  /\ procs[p].kind = "callback"
  /\ procs[p].pc = "delete"
  /\ chatMessages' = DeleteMessage(procs[p].msg.chat, procs[p].msg.message_id)
  /\ procs' = [procs EXCEPT
       ![p].pc = "done",
       ![p].trace = @ \o
         <<Effect("deleteMessage", procs[p].msg.chat, Absent, procs[p].msg.message_id),
           Effect("answerCallbackQuery", 0, Absent, procs[p].cq.id)>>]
  /\ UNCHANGED <<timerVars, storeVars, nextMessageId>>

\* The awaited store operation or gateway call of handleMedia or
\* handleCallbackQuery (the insert, the deleteMessage, the prompt, the thanks,
\* the reply returned) rejects: nothing catches it, the handler ends there,
\* before the calls that would follow (answerCallbackQuery among them)
ModerationFail(p) ==
  /\ procs[p].kind \in {"media", "callback"}
  /\ procs[p].pc \in {"store", "delete", "prompt", "thanks", "reply"}
  /\ Finish(p, procs[p], "failed")
  /\ UNCHANGED <<storeVars, chatVars>>

(***************************************************************************)
(* Specifications                                                          *)
(***************************************************************************)
\* The scheduler, the commands and the publishing of the queue
NextSched ==
  \/ TickFire
  \/ \E p \in ProcIds : TickCount(p)
  \/ \E p \in ProcIds : PostCount(p)
  \/ \E p \in ProcIds : PostFind(p)
  \/ \E p \in ProcIds : PostSend(p)
  \/ \E p \in ProcIds : PostRemove(p)
  \/ \E p \in ProcIds : PostFail(p)
  \/ Command
  \/ \E p \in ProcIds : QueueInfoCount(p)
  \/ \E p \in ProcIds : Reply(p)
  \/ \E p \in ProcIds : CommandFail(p)

\* The moderation of inbound messages
NextMod ==
  \/ Media
  \/ \E p \in ProcIds : MediaStore(p)
  \/ \E p \in ProcIds : MediaDelete(p)
  \/ \E p \in ProcIds : MediaPrompt(p)
  \/ \E p \in ProcIds : MediaThanks(p)
  \/ Callback
  \/ \E p \in ProcIds : CallbackStore(p)
  \/ \E p \in ProcIds : CallbackDelete(p)
  \/ \E p \in ProcIds : Reply(p)
  \/ \E p \in ProcIds : ModerationFail(p)

Next == NextSched \/ NextMod

\* No handler is suspended on an await
Idle == \A p \in ProcIds : Ended(procs[p].pc)

\* The scheduler, the commands and the publishing of the queue when every
\* event arrives after the handler of the one before has ended and no store
\* operation or gateway call rejects
NextSeq ==
  \/ (Idle /\ TickFire)
  \/ \E p \in ProcIds : TickCountLogged(p)
  \/ \E p \in ProcIds : PostCount(p)
  \/ \E p \in ProcIds : PostFind(p)
  \/ \E p \in ProcIds : PostSend(p)
  \/ \E p \in ProcIds : PostRemove(p)
  \/ (Idle /\ Command)
  \/ \E p \in ProcIds : QueueInfoCount(p)
  \/ \E p \in ProcIds : Reply(p)

\* Inbound messages of every shape, each after the handler of the one before
\* has ended, when no store operation or gateway call rejects
NextCodec ==
  \/ (Idle /\ MediaOfAnyShape)
  \/ \E p \in ProcIds : MediaStore(p)
  \/ \E p \in ProcIds : MediaDelete(p)
  \/ \E p \in ProcIds : MediaPrompt(p)
  \/ \E p \in ProcIds : MediaThanks(p)
  \/ \E p \in ProcIds : Reply(p)

\* The first tick after startup, up to its decision
NextChance ==
  \/ (procs = <<>> /\ TickFire)
  \/ \E p \in ProcIds : TickCountLogged(p)

SpecSched == Init /\ [][NextSched]_vars
SpecMod == InitBacklog /\ [][NextMod]_vars
Spec == Init /\ [][Next]_vars
SpecSeq == InitSeq /\ [][NextSeq]_vars
SpecChance == InitChance /\ [][NextChance]_vars
SpecCodec == InitBacklog /\ [][NextCodec]_vars

(***************************************************************************)
(* Properties                                                              *)
(***************************************************************************)
Publishing(p) == procs[p].pc \in {"count", "find", "send", "remove"}
IsPublish(e) == e.op \in {"sendPhoto", "sendVideo", "sendAnimation"} /\ e.chat = PostTarget
Has(p, op) == \E j \in DOMAIN procs[p].trace : procs[p].trace[j].op = op
Times(p, op) == Cardinality({j \in DOMAIN procs[p].trace : procs[p].trace[j].op = op})

\* C1: at-most-once consumption: no document of the queue is sent to the
\* target chat by two different takes (two iterations of postRandomMessage,
\* of the same handler or of two handlers)
C1_AtMostOnceConsumption ==
  \A p \in ProcIds, q \in ProcIds :
    \A j \in DOMAIN procs[p].trace, k \in DOMAIN procs[q].trace :
      ( /\ IsPublish(procs[p].trace[j])
        /\ IsPublish(procs[q].trace[k])
        /\ procs[p].trace[j].id = procs[q].trace[k].id )
      => (p = q /\ j = k)

\* C2: a manual /random_post batch and a scheduled tick's batch are never
\* publishing from the queue at the same time
C2_ManualSupersedesTick ==
  ~ \E p \in ProcIds, q \in ProcIds :
      /\ procs[p].kind = "tick" /\ Publishing(p)
      /\ procs[q].kind = "command" /\ Publishing(q)

\* C3: at most one timeout that can still fire exists, and it is the one
\* whose handle postTimer holds: a superseded handle is not pending, so it
\* never fires
C3_OnePendingTimer ==
  /\ Cardinality(timers) <= 1
  /\ timers \subseteq {postTimer}

\* C3 witness: a manual trigger arrived while a tick handler was suspended at
\* an await, and the one pending timeout is the one that trigger set
C3_Witness ==
  \E p \in ProcIds, q \in ProcIds :
    /\ p < q
    /\ procs[p].kind = "tick" /\ ~Ended(procs[p].pc)
    /\ procs[q].kind = "command" /\ Publishing(q)
    /\ timers = {postTimer}
    /\ postTimer > 1

TickRunning(p) == procs[p].kind = "tick" /\ ~Ended(procs[p].pc)

\* C4: whenever a tick handler ends, however it ends, a timeout is pending
\* in the state it leaves; and in every state a timeout is pending or a tick
\* handler is in progress
C4_SchedulerSelfHealing ==
  /\ [](timers # {} \/ \E p \in ProcIds : TickRunning(p))
  /\ [][\A p \in ProcIds : (TickRunning(p) /\ Ended(procs'[p].pc)) => timers' # {}]_vars

\* C4 witness: a tick handler published a document and then failed (the
\* remove, or a later take, rejected), and a timeout is pending
C4_Witness ==
  \E p \in ProcIds :
    /\ procs[p].kind = "tick"
    /\ procs[p].pc = "failed"
    /\ \E j \in DOMAIN procs[p].trace : IsPublish(procs[p].trace[j])
    /\ timers # {}
    /\ \A q \in ProcIds : ~TickRunning(q)

Privileged(id) == id \in {ownerId, AdminId}
CarriesMedia(m) == m.photo # <<>> \/ m.video # Absent \/ m.animation # Absent
Encodes(m) == m.media_group_id = Absent /\ CarriesMedia(m)
FromBlacklisted(m) == m.forward_from_chat = BlacklistedChat
NotWelcome(chat) == Effect("sendMessage", chat, "This content is not welcome here :(", 0)
ExpectedRejection(m) ==
  IF m.media_group_id # Absent THEN "Media groups are not supported yet :("
  ELSE IF m.text # Absent THEN "No text only content :("
  ELSE "No allowed content found :("
InChat(m) == \E c \in chatMessages : c.chat = m.chat /\ c.message_id = m.message_id
\* The handler p starts or takes a step
Steps(p) == p > Len(procs) \/ procs'[p] # procs[p]
IsMediaHandler(p) == procs[p].kind = "media"
IsCallbackHandler(p) == procs[p].kind = "callback"

\* C5: every callback query whose handling has ended was answered with
\* exactly one answerCallbackQuery
C5_CallbackAcknowledgedOnce ==
  \A p \in ProcIds :
    (IsCallbackHandler(p) /\ procs[p].pc = "done") => Times(p, "answerCallbackQuery") = 1

PrivilegedInsert(p) ==
  \/ IsMediaHandler(p) /\ Privileged(procs[p].msg.from)
  \/ /\ IsCallbackHandler(p)
     /\ Privileged(procs[p].cq.from)
     /\ procs[p].cq.data = "accept"
     /\ \E q \in ProcIds :
          /\ q < p
          /\ IsMediaHandler(q)
          /\ \E j \in DOMAIN procs[q].trace :
               /\ procs[q].trace[j].chat = ownerId
               /\ procs[q].trace[j].id = procs[p].msg.message_id

\* C6: a document enters the store only by the step of an administrator's
\* own submission or of an administrator's 'accept' of a review prompt;
\* the handler of a non-privileged sender's submission inserts nothing, and
\* the handler of a callback from outside the administrators neither
\* inserts a document nor deletes a message
C6_PersistenceAfterAuthorization ==
  /\ [](\A p \in ProcIds :
          /\ Has(p, "insert") => PrivilegedInsert(p)
          /\ (IsMediaHandler(p) /\ ~Privileged(procs[p].msg.from)) => ~Has(p, "insert")
          /\ (IsCallbackHandler(p) /\ ~Privileged(procs[p].cq.from)) =>
               ~Has(p, "insert") /\ ~Has(p, "deleteMessage"))
  /\ [][ /\ db \subseteq db'
         /\ db' # db =>
              \E p \in ProcIds :
                /\ PrivilegedInsert(p)
                /\ procs[p].pc = "store"
                /\ procs'[p].pc = "delete"
                /\ Cardinality(db' \ db) = 1
         /\ \A p \in 1 .. Len(procs') :
              ( /\ Steps(p)
                /\ procs'[p].kind = "callback"
                /\ ~Privileged(procs'[p].cq.from) )
              => (db' = db /\ chatMessages' = chatMessages)
         /\ \A p \in 1 .. Len(procs') :
              ( /\ Steps(p)
                /\ procs'[p].kind = "media"
                /\ ~Privileged(procs'[p].msg.from) )
              => db' = db ]_vars

\* C6 witness: a non-privileged sender's submission was forwarded, an
\* administrator accepted its prompt, and the document is in the store
C6_Witness ==
  \E p \in ProcIds, q \in ProcIds :
    /\ IsMediaHandler(q) /\ ~Privileged(procs[q].msg.from) /\ procs[q].pc = "done"
    /\ IsCallbackHandler(p) /\ procs[p].pc = "done" /\ PrivilegedInsert(p)
    /\ \E j \in DOMAIN procs[p].trace :
         /\ procs[p].trace[j].op = "insert"
         /\ \E d \in db : d._id = procs[p].trace[j].id

BlacklistRefusalCase(m) == ~Privileged(m.from) /\ Encodes(m) /\ FromBlacklisted(m)

\* C7: the handler of a non-privileged sender's photo, video or animation
\* forwarded from a blacklisted chat sends exactly one reply, the 'not
\* welcome' one, and its steps change neither the store nor the prompts in
\* the owner's chat; when the gateway rejects that reply the handler ends
\* with nothing sent and the same frame
C7_BlacklistRefusalFrame ==
  /\ [](\A p \in ProcIds :
          (IsMediaHandler(p) /\ BlacklistRefusalCase(procs[p].msg)) =>
            \/ procs[p].pc = "reply" /\ procs[p].trace = <<>>
            \/ procs[p].pc = "done" /\ procs[p].trace = <<NotWelcome(procs[p].msg.chat)>>
            \/ /\ procs[p].pc = "failed"
               /\ procs[p].trace = <<>>
               /\ procs[p].reply = "This content is not welcome here :(")
  /\ [][\A p \in 1 .. Len(procs') :
          ( /\ Steps(p)
            /\ procs'[p].kind = "media"
            /\ BlacklistRefusalCase(procs'[p].msg) )
          => (db' = db /\ Prompts' = Prompts)]_vars

\* C7 witness: such a submission was refused and its handler has ended
C7_Witness ==
  \E p \in ProcIds :
    /\ IsMediaHandler(p)
    /\ BlacklistRefusalCase(procs[p].msg)
    /\ procs[p].pc = "done"
    /\ procs[p].trace = <<NotWelcome(procs[p].msg.chat)>>

\* C8 as claimed: every message a non-privileged sender forwards from a
\* blacklisted chat, whatever its content, is answered with the 'not
\* welcome' reply alone
C8_BlacklistBeforeEncoding ==
  \A p \in ProcIds :
    ( /\ IsMediaHandler(p)
      /\ ~Privileged(procs[p].msg.from)
      /\ FromBlacklisted(procs[p].msg)
      /\ procs[p].pc = "done" )
    => procs[p].trace = <<NotWelcome(procs[p].msg.chat)>>

\* C8 as amended: for a non-privileged sender encoding comes first: a
\* message that does not encode is answered with its rejection message
\* alone, whatever its forward origin; a message that encodes and comes
\* from a blacklisted chat is answered with the 'not welcome' reply alone
C8_EncodingBeforeBlacklist ==
  \A p \in ProcIds :
    (IsMediaHandler(p) /\ ~Privileged(procs[p].msg.from) /\ procs[p].pc = "done") =>
      /\ ~Encodes(procs[p].msg) =>
           procs[p].trace = <<Effect("sendMessage", procs[p].msg.chat,
                                     ExpectedRejection(procs[p].msg), 0)>>
      /\ (Encodes(procs[p].msg) /\ FromBlacklisted(procs[p].msg)) =>
           procs[p].trace = <<NotWelcome(procs[p].msg.chat)>>

\* C8 witness: a text-only message forwarded from a blacklisted chat by a
\* non-privileged sender was answered with the encoding rejection
C8_Witness ==
  \E p \in ProcIds :
    /\ IsMediaHandler(p)
    /\ ~Privileged(procs[p].msg.from)
    /\ FromBlacklisted(procs[p].msg)
    /\ procs[p].msg.text # Absent
    /\ procs[p].pc = "done"
    /\ procs[p].trace = <<Effect("sendMessage", procs[p].msg.chat,
                                 "No text only content :(", 0)>>

AutoAcceptCase(m) == Privileged(m.from) /\ Encodes(m)

\* C9: the handler of an administrator's photo, video or animation,
\* whatever its forward origin, inserts one document (the store grows by
\* exactly one in that step), then deletes the original message, and sends
\* no prompt; when the insert or the deleteMessage is rejected the handler
\* ends there, the message still in its chat
C9_PrivilegedAutoAccept ==
  /\ [](\A p \in ProcIds :
          (IsMediaHandler(p) /\ AutoAcceptCase(procs[p].msg)) =>
            \/ /\ procs[p].pc = "store"
               /\ procs[p].trace = <<>>
               /\ InChat(procs[p].msg)
            \/ /\ procs[p].pc = "delete"
               /\ Len(procs[p].trace) = 1
               /\ procs[p].trace[1].op = "insert"
               /\ InChat(procs[p].msg)
            \/ /\ procs[p].pc = "done"
               /\ Len(procs[p].trace) = 2
               /\ procs[p].trace[1].op = "insert"
               /\ procs[p].trace[2] = Effect("deleteMessage", procs[p].msg.chat, Absent,
                                             procs[p].msg.message_id)
               /\ ~InChat(procs[p].msg)
            \/ /\ procs[p].pc = "failed"
               /\ \/ procs[p].trace = <<>>
                  \/ Len(procs[p].trace) = 1 /\ procs[p].trace[1].op = "insert"
               /\ InChat(procs[p].msg))
  /\ [][\A p \in ProcIds :
          (IsMediaHandler(p) /\ AutoAcceptCase(procs[p].msg) /\ Steps(p)) =>
            /\ Prompts' = Prompts
            /\ Cardinality(db') =
                 Cardinality(db) +
                   (IF procs[p].pc = "store" /\ procs'[p].pc # "failed" THEN 1 ELSE 0)]_vars

\* C9 witness: an administrator's video forwarded from a blacklisted chat
\* was stored and the original message deleted
C9_Witness ==
  \E p \in ProcIds :
    /\ IsMediaHandler(p)
    /\ AutoAcceptCase(procs[p].msg)
    /\ procs[p].msg.video # Absent
    /\ FromBlacklisted(procs[p].msg)
    /\ procs[p].pc = "done"
    /\ \E d \in db : d._id = procs[p].trace[1].id /\ d.message[1] = "sendVideo"

\* C10: when the handling of an administrator's 'accept' or 'reject' has
\* ended, the prompt was deleted
C10_PromptDeletedOnAnswer ==
  \A p \in ProcIds :
    ( /\ IsCallbackHandler(p)
      /\ Privileged(procs[p].cq.from)
      /\ procs[p].cq.data \in {"accept", "reject"}
      /\ procs[p].pc = "done" )
    => (Has(p, "deleteMessage") /\ ~InChat(procs[p].msg))

\* The takes that returned a document: one per completed db.remove of a
\* postRandomMessage, as <<handler, position in its trace>>
Takes ==
  {x \in UNION {{<<p, j>> : j \in DOMAIN procs[p].trace} : p \in ProcIds} :
     procs[x[1]].trace[x[2]].op = "remove"}
TakenId(x) == procs[x[1]].trace[x[2]].id
\* The inserts since the store was empty: the store assigns _id 1, 2, ...
Inserts == nextId - 1

\* C11: when as many takes have returned a document as documents were
\* inserted since the store was empty, the store is empty; and no _id is
\* returned by two takes
C11_QueueAccounting ==
  /\ Cardinality(Takes) = Inserts => Count = 0
  /\ \A x \in Takes, y \in Takes : TakenId(x) = TakenId(y) => x = y


\* The tick p reads the count of the store in this step
TickReads(p) ==
  /\ procs[p].kind = "tick"
  /\ procs[p].pc = "tcount"
  /\ procs'[p] # procs[p]
  /\ procs'[p].pc # "failed"

\* C12: a scheduled tick that reads a count of 0 ends there, whatever the
\* hour and the draw: it has published nothing and publishes nothing, the
\* store and the chats are as they were, and the timeout of the next tick is
\* set and is the one postTimer holds.
C12_EmptyQueueTick ==
  [][\A p \in ProcIds :
       (TickReads(p) /\ Count = 0) =>
         /\ procs'[p].pc = "done"
         /\ procs'[p].trace = <<>>
         /\ db' = db /\ chatMessages' = chatMessages
         /\ postTimer' = nextTimer
         /\ postTimer' \in timers']_vars

C12_Witness ==
  \E p \in ProcIds :
    /\ procs[p].kind = "tick"
    /\ procs[p].pc = "done"
    /\ procs[p].trace = <<>>
    /\ nextId = 1
    /\ Count = 0
    /\ postTimer \in timers


\* The ticks that have computed their post chance
Decided == {p \in ProcIds : procs[p].seen # NoSeen}

\* C13: the post chance a tick computes from a backlog of c documents lies in
\* [0, 1], is not below the chance for c - 1 documents, is 0.25 at c = 25 and
\* is 1 at c = 200 (chances as numerators over PostChanceDen).
C13_PostChance ==
  \A p \in Decided :
    LET c == procs[p].seen.count
        chance == procs[p].seen.chance
    IN
      /\ 0 <= chance /\ chance <= PostChanceDen
      /\ c > 0 => postChance(c - 1) <= chance
      /\ c = 25 => chance * 100 = 25 * PostChanceDen
      /\ c = 200 => chance = PostChanceDen

C13_Witness ==
  \E p \in Decided : procs[p].seen.count = 200 /\ procs[p].seen.chance = PostChanceDen


\* The hour the tick p computed is not inside (MIN_HOUR, MAX_HOUR)
OutsideWindow(p) ==
  procs[p].seen.hour <= MIN_HOUR \/ procs[p].seen.hour >= MAX_HOUR

\* C14: a scheduled tick whose hour is MIN_HOUR, is MAX_HOUR or lies outside
\* the window has ended without a publish and without a take, whatever the
\* backlog it read and the draw it made.
C14_StrictHourWindow ==
  \A p \in Decided :
    OutsideWindow(p) => procs[p].pc = "done" /\ procs[p].trace = <<>>

C14_Witness ==
  \E p \in Decided, q \in Decided :
    /\ procs[p].seen.hour = MIN_HOUR /\ procs[q].seen.hour = MAX_HOUR
    /\ procs[p].seen.draw = 0 /\ procs[q].seen.draw = 0
    /\ procs[p].seen.count > 0 /\ procs[q].seen.count > 0
    /\ procs[p].pc = "done" /\ procs[q].pc = "done"
    /\ procs[p].trace = <<>> /\ procs[q].trace = <<>>


\* The handler p holds no serialized message, and the reply it returns (or
\* has sent, and nothing else) is `text`
RejectedWith(p, text) ==
  /\ procs[p].ser = NoSerialized
  /\ procs[p].reply = text
  /\ \/ procs[p].pc = "reply" /\ procs[p].trace = <<>>
     \/ /\ procs[p].pc = "done"
        /\ procs[p].trace = <<Effect("sendMessage", procs[p].msg.chat, text, 0)>>

\* The handler p holds the serialized message of this method and file
EncodedAs(p, method, fileId) ==
  /\ procs[p].reply = Absent
  /\ procs[p].ser # NoSerialized
  /\ procs[p].ser[1] = method
  /\ procs[p].ser[2] = fileId

\* C15: for every combination of media_group_id, photo, video, animation and
\* text of an inbound message, the handler holds what the ordered rules give:
\* the media group rejection when media_group_id is set (media or not), else
\* sendPhoto, else sendVideo, else sendAnimation for the first of photo, video
\* and animation that is set, else the text-only rejection when text is set,
\* else the no-allowed-content rejection; a rejection leaves no serialized
\* message.
C15_OrderedEncoding ==
  \A p \in ProcIds :
    procs[p].kind = "media" =>
      LET m == procs[p].msg IN
        IF m.media_group_id # Absent
          THEN RejectedWith(p, "Media groups are not supported yet :(")
        ELSE IF m.photo # <<>> THEN EncodedAs(p, "sendPhoto", m.photo[1])
        ELSE IF m.video # Absent THEN EncodedAs(p, "sendVideo", m.video)
        ELSE IF m.animation # Absent THEN EncodedAs(p, "sendAnimation", m.animation)
        ELSE IF m.text # Absent THEN RejectedWith(p, "No text only content :(")
        ELSE RejectedWith(p, "No allowed content found :(")

C15_Witness ==
  \E p \in ProcIds, q \in ProcIds :
    /\ procs[p].kind = "media" /\ procs[q].kind = "media"
    /\ procs[p].msg.media_group_id # Absent /\ procs[p].msg.photo # <<>>
    /\ procs[p].pc = "done" /\ procs[p].ser = NoSerialized
    /\ procs[q].msg.media_group_id = Absent /\ procs[q].msg.photo = <<>>
    /\ procs[q].msg.video # Absent /\ procs[q].msg.animation # Absent
    /\ procs[q].msg.text # Absent
    /\ procs[q].pc = "done" /\ procs[q].ser[1] = "sendVideo"


Min(a, b) == IF a < b THEN a ELSE b
Max(a, b) == IF a > b THEN a ELSE b

\* The size of the batch the handler p asked postRandomMessages for; -1 when
\* it asked for none
Requested(p) ==
  IF procs[p].kind = "tick"
    THEN IF procs[p].seen.n > 0 THEN procs[p].seen.n ELSE 0 - 1
  ELSE IF procs[p].kind = "command" /\ Privileged(procs[p].msg.from)
    THEN CASE procs[p].msg.text = "/random_post" -> 1
           [] procs[p].msg.text = "/random_post 0" -> 0
           [] procs[p].msg.text = "/random_post 2" -> 2
           [] OTHER -> 0 - 1
  ELSE 0 - 1

Published(p) == {j \in DOMAIN procs[p].trace : IsPublish(procs[p].trace[j])}

\* The documents in the store when the handler p started, no handler running
\* beside it: those of startup less the ones taken before
BacklogAt(p) == Inserts - Cardinality({x \in Takes : x[1] < p})

\* C16: with one handler at a time and no rejected send, a batch of N asked
\* against a backlog of B has, once it has ended, published min(N, B)
\* documents, each a different one, and taken as many; it leaves count() =
\* max(B - N, 0); no handler ends with an error, the batches the queue ran
\* dry under included.
C16_BatchAgainstBacklog ==
  /\ \A p \in ProcIds : procs[p].pc # "failed"
  /\ Idle => Count = Inserts - Cardinality(Takes)
  /\ \A p \in ProcIds :
       (Requested(p) >= 0 /\ procs[p].pc = "done") =>
         LET N == Requested(p)
             B == BacklogAt(p)
         IN
           /\ Cardinality(Published(p)) = Min(N, B)
           /\ Cardinality({procs[p].trace[j].id : j \in Published(p)}) = Min(N, B)
           /\ Times(p, "remove") = Min(N, B)
           /\ p = Len(procs) => Count = Max(B - N, 0)

C16_Witness ==
  \E p \in ProcIds :
    /\ procs[p].pc = "done"
    /\ p = Len(procs)
    /\ BacklogAt(p) > 1
    /\ Requested(p) > BacklogAt(p)
    /\ Cardinality(Published(p)) = BacklogAt(p)
    /\ Count = 0


\* The handler p has sent the document of this _id to the channel
HasPublished(p, id) ==
  \E j \in DOMAIN procs[p].trace :
    IsPublish(procs[p].trace[j]) /\ procs[p].trace[j].id = id

\* C17: a document leaves the store only in the step that completes the
\* db.remove of a take whose send of that document has completed; a handler
\* whose send is rejected ends there with the store as it was (the document
\* kept, count() the same) and nothing published, and a handler that has
\* ended takes no further step, so the rest of its batch is not attempted.
C17_NoRecordLost ==
  [][/\ \A d \in db \ db' :
          \E p \in ProcIds :
            /\ procs[p].pc = "remove"
            /\ procs'[p] # procs[p]
            /\ procs[p].doc._id = d._id
            /\ HasPublished(p, d._id)
     /\ \A p \in ProcIds :
          (procs[p].pc = "send" /\ procs'[p].pc = "failed") =>
            /\ db' = db
            /\ procs'[p].trace = procs[p].trace
     /\ \A p \in ProcIds : Ended(procs[p].pc) => procs'[p] = procs[p]]_vars

C17_Witness ==
  \E p \in ProcIds, q \in ProcIds :
    /\ procs[p].pc = "failed" /\ procs[p].trace = <<>>
    /\ procs[q].pc = "remove"
    /\ HasPublished(q, procs[q].doc._id)
    /\ procs[q].doc \in db


\* The reply that carries the rejection of the message m
RejectionReply(m) == Effect("sendMessage", m.chat, ExpectedRejection(m), 0)

\* The handlers, after this step, of inbound messages that do not encode
RejectingAfter ==
  {p \in 1 .. Len(procs') : procs'[p].kind = "media" /\ ~Encodes(procs'[p].msg)}

\* C18: the handler of an inbound message that does not encode, from an
\* administrator or not, sends the rejection message to the sender's chat
\* once and does nothing else: none of its steps changes the store or the
\* review prompts in the owner's chat, and the message stays in its chat;
\* when the gateway rejects that reply the handler ends with nothing sent.
C18_RejectionWithoutSideEffect ==
  /\ [](\A p \in ProcIds :
          (IsMediaHandler(p) /\ ~Encodes(procs[p].msg)) =>
            /\ \/ procs[p].pc = "reply" /\ procs[p].trace = <<>>
               \/ procs[p].pc = "done" /\ procs[p].trace = <<RejectionReply(procs[p].msg)>>
               \/ /\ procs[p].pc = "failed"
                  /\ procs[p].trace = <<>>
                  /\ procs[p].reply = ExpectedRejection(procs[p].msg)
            /\ InChat(procs[p].msg))
  /\ [][\A p \in RejectingAfter :
          (p > Len(procs) \/ procs'[p] # procs[p]) =>
            /\ db' = db
            /\ Prompts' = Prompts]_vars

C18_Witness ==
  \E p \in ProcIds, q \in ProcIds :
    /\ IsMediaHandler(p) /\ IsMediaHandler(q)
    /\ Privileged(procs[p].msg.from) /\ ~Privileged(procs[q].msg.from)
    /\ ~Encodes(procs[p].msg) /\ ~Encodes(procs[q].msg)
    /\ procs[p].msg.media_group_id # Absent /\ procs[p].msg.photo # <<>>
    /\ procs[p].trace = <<RejectionReply(procs[p].msg)>>
    /\ procs[q].trace = <<RejectionReply(procs[q].msg)>>
    /\ InChat(procs[p].msg) /\ InChat(procs[q].msg)


\* What serializeMessage returns: a method of exactly one kind, the file
\* and the options
IsSubmission(v) ==
  /\ Len(v) = 3
  /\ v[1] \in {"sendPhoto", "sendVideo", "sendAnimation"}
  /\ v[2] # Absent
  /\ v[3] \in {NoOptions, [NoOptions EXCEPT !.caption = "caption"]}

\* The handlers, after this step, of an administrator's 'accept' of a prompt
\* whose content does not encode
FailedReencodingAfter ==
  {p \in 1 .. Len(procs') :
     /\ procs'[p].kind = "callback"
     /\ Privileged(procs'[p].cq.from)
     /\ procs'[p].cq.data = "accept"
     /\ ~Encodes(procs'[p].msg)}

\* C19: every document of the store holds a serialized message of exactly
\* one kind (photo, video or animation); every document a handler inserts is
\* one; the handler of an 'accept' whose prompt does not encode again
\* inserts nothing.
C19_StoreHoldsSubmissions ==
  /\ [](\A d \in db : IsSubmission(d.message))
  /\ [][/\ \A d \in db' \ db : IsSubmission(d.message)
        /\ \A p \in FailedReencodingAfter :
             (p > Len(procs) \/ procs'[p] # procs[p]) =>
               /\ db' = db
               /\ ~\E j \in DOMAIN procs'[p].trace : procs'[p].trace[j].op = "insert"]_vars

C19_Witness ==
  \E p \in ProcIds :
    /\ IsCallbackHandler(p)
    /\ Privileged(procs[p].cq.from)
    /\ procs[p].cq.data = "accept"
    /\ ~Encodes(procs[p].msg)
    /\ procs[p].pc = "done"
    /\ ~Has(p, "insert")
    /\ Count = MaxBacklog
    /\ \A d \in db : IsSubmission(d.message)


UnknownCommand(m) == Effect("sendMessage", m.chat, "Unknown command :(", 0)

IsRandomPost(text) == text \in {"/random_post", "/random_post 0", "/random_post 2"}

\* The handlers, after this step, of a /random_post command whose sender is
\* no administrator
UnprivilegedTriggerAfter ==
  {p \in 1 .. Len(procs') :
     /\ procs'[p].kind = "command"
     /\ IsRandomPost(procs'[p].msg.text)
     /\ ~Privileged(procs'[p].msg.from)}

\* C20: the handler of a /random_post command, with a count or without,
\* from a sender who is no administrator sends 'Unknown command :(' to the
\* sender's chat and does nothing else: it publishes nothing and takes
\* nothing, and none of its steps changes the store, postTimer or the
\* timeouts that are set; when the gateway rejects that reply the handler
\* ends with nothing sent.
C20_OnlyAdministratorsTrigger ==
  /\ [](\A p \in ProcIds :
          ( /\ procs[p].kind = "command"
            /\ IsRandomPost(procs[p].msg.text)
            /\ ~Privileged(procs[p].msg.from) ) =>
            \/ procs[p].pc = "reply" /\ procs[p].trace = <<>>
            \/ procs[p].pc = "done" /\ procs[p].trace = <<UnknownCommand(procs[p].msg)>>
            \/ /\ procs[p].pc = "failed"
               /\ procs[p].trace = <<>>
               /\ procs[p].reply = "Unknown command :(")
  /\ [][\A p \in UnprivilegedTriggerAfter :
          (p > Len(procs) \/ procs'[p] # procs[p]) =>
            /\ db' = db
            /\ postTimer' = postTimer
            /\ timers' = timers]_vars

C20_Witness ==
  \E p \in ProcIds :
    /\ procs[p].kind = "command"
    /\ procs[p].msg.text = "/random_post 2"
    /\ ~Privileged(procs[p].msg.from)
    /\ procs[p].pc = "done"
    /\ procs[p].trace = <<UnknownCommand(procs[p].msg)>>
    /\ Count > 0
    /\ postTimer \in timers

====
